---- MODULE Spec2Model ----
(***************************************************************************)
(* A model of the data loading core of text-correction-utils               *)
(* (src/src/data/mod.rs): the training DataLoader (construction, the       *)
(* per-iteration assembly of init_iter, __iter__/__next__, set_epoch and   *)
(* set_fast_forward), the ordered pipeline stage, the batcher and the      *)
(* tensorization of a batch.                                               *)
(*                                                                         *)
(* src/src/data/loading.rs (TextIterator, PipelineIterator,                *)
(* BatchedIterator, BufferedIterator) is not part of the sources at hand;  *)
(* the definitions that stand for it follow sections 4.2 to 4.6 of the     *)
(* specification and say so.                                               *)
(***************************************************************************)
EXTENDS Integers, Sequences, FiniteSets, TLC

VARIABLES
    mode,          \* which part of the program the behaviour exercises
    \* ---- the training loader (struct DataLoader and its environment)
    stream,        \* the pre-shard stream of the text iterator: one kind per position
    text_min_len,  \* TextIterator::min_len() of that stream
    dl,            \* result of DataLoader::new: status and the immutable fields
    epoch,         \* DataLoader.epoch
    fast_forward,  \* DataLoader.fast_forward
    min_items,     \* DataLoader.min_items : Option<usize>
    iter,          \* DataLoader.iter : Option<Box<DataIter>>
    yielded,       \* batches returned by __next__ since the iterator was last built
    ret,           \* what the last handler returned
    \* ---- one training iteration with its threads (pipeline stage, buffer)
    p_threads,     \* num_threads, the worker count of the pipeline stage
    p_buffer_size, \* buffer_size, the capacity of the buffer's queue
    p_seed,        \* the per-iteration seed handed to the stages
    p_inputs,      \* the records the stage is fed, in upstream order
    p_next,        \* the number of inputs tagged and dispatched so far
    p_inchan,      \* the shared input channel of tagged inputs
    p_work,        \* per worker: the tagged input it is working on, if any
    p_done,        \* completed tagged outputs not yet released (reorder buffer)
    p_out,         \* the tagged outputs pulled from the stage so far
    b_window,      \* the batcher's prefetch buffer
    b_pending,     \* batches formed from the last window and not yet emitted
    q,             \* the buffer's queue of batches
    \* ---- tensorization of one batch
    t_items,       \* Batch.items of the batch handed to tensorize
    t_tokenizer,   \* what tensorize reads of the tokenizer
    tensorized,    \* the output of tensorize, once it has been called
    \* ---- the inference loader (struct InferenceLoader)
    iter_err,      \* InferenceLoader.iter_err : the slot of the last error
    i_read,        \* the number of records the first scan has been handed
    i_src_ended,   \* the pipeline stage has seen the end of the first scan
    i_pipe_ended,  \* the second scan has returned None (flatten is fused)
    i_flat,        \* items of the last pulled record that flatten still holds
    \* ---- one call of a function of the crate (parsing, whitespace)
    f_args,        \* the arguments of the call
    f_result       \* what the call returned, once it has been made

loaderVars == <<stream, text_min_len, dl, epoch, fast_forward, min_items, iter, yielded, ret>>
pipeVars == <<p_threads, p_buffer_size, p_seed, p_inputs, p_next, p_inchan, p_work,
              p_done, p_out, b_window, b_pending, q>>
tensorVars == <<t_items, t_tokenizer, tensorized>>
inferVars == <<iter_err, i_read, i_src_ended, i_pipe_ended, i_flat>>
fnVars == <<f_args, f_result>>
vars == <<mode, loaderVars, pipeVars, tensorVars, inferVars, fnVars>>

-----------------------------------------------------------------------------
(* Bounds of the model *)
MaxLen == 3        \* records in the pre-shard stream
MaxSkip == 1       \* DataLoader.skip
MaxLimit == 2      \* an explicit DataLoader.limit
MaxWorld == 2      \* world_size
(* the values set_epoch and set_fast_forward are called with *)
Epochs == {0, 1}
FastForwards == {0, 1}

(* usize::MAX, the value of `limit` when none is given.  The checker's      *)
(* integers are 32 bit wide; every other quantity of the model stays far   *)
(* below this value, as it stays far below 2^64 - 1 in the program.        *)
UsizeMax == 2147483647

-----------------------------------------------------------------------------
(* Option<T> *)
None == <<>>
Some(v) == <<v>>
IsSome(o) == o # <<>>
Unwrap(o) == o[1]

Min(a, b) == IF a <= b THEN a ELSE b
Max(a, b) == IF a >= b THEN a ELSE b
(* usize::saturating_sub *)
SaturatingSub(a, b) == IF a >= b THEN a - b ELSE 0

(* Iterator::take, Iterator::skip, Iterator::step_by of the standard library *)
Take(s, n) == SubSeq(s, 1, Min(n, Len(s)))
Skip(s, n) == SubSeq(s, Min(n, Len(s)) + 1, Len(s))
StepBy(s, w) == [i \in 1..((Len(s) + w - 1) \div w) |-> s[(i - 1) * w + 1]]

RECURSIVE Concat(_)
Concat(ss) == IF ss = <<>> THEN <<>> ELSE Head(ss) \o Concat(Tail(ss))

Range(s) == {s[i] : i \in 1..Len(s)}

-----------------------------------------------------------------------------
(* The text iterator (loading.rs, specification 4.2): the stream of        *)
(* Result<TextData> records after the mixing strategy; position p is the   *)
(* p-th record, kind "src_err" an Err record of the source.                *)
Kinds == {"ok", "src_err", "pipe_err"}
TextIter(text) == [i \in 1..Len(text) |-> [pos |-> i - 1, kind |-> text[i]]]

(* |d| d.ok() of the first filter_map: an Err record of the source is dropped *)
SourceOk(d) == d.kind # "src_err"

(* The tokenizer (external): the token ids of the record at a position; a  *)
(* preprocessing function may use the seed, so the ids may depend on it.   *)
Tokenize(pos, seed) ==
    LET n == 1 + ((2 * pos + (IF IsSome(seed) THEN Unwrap(seed) ELSE 0)) % 3)
    IN  [j \in 1..n |-> pos + j]

(* TextDataPipeline::with_tokenizer: the closure preprocess -> tokenize ->  *)
(* label; it ignores the index and fails when preprocessing or labeling    *)
(* fails.                                                                  *)
WithTokenizer(data, idx, seed) ==
    IF data.kind = "pipe_err"
    THEN [ok |-> FALSE, pos |-> data.pos, token_ids |-> <<>>]
    ELSE [ok |-> TRUE, pos |-> data.pos, token_ids |-> Tokenize(data.pos, seed)]

(* a variant of Apply that hands the pipeline no seed *)
ApplyUnseeded(input, idx, seed) == WithTokenizer(input, idx, None)

(* Pipeline::apply *)
Apply(input, idx, seed) == WithTokenizer(input, idx, seed)

(* |i| i.ok() of the second filter_map *)
ItemOk(i) == i.ok

(* a variant of ItemSize that leaves one token out of the count *)
ItemSizeLessOne(item) == IF Len(item.token_ids) > 0 THEN Len(item.token_ids) - 1 ELSE 0

(* impl ItemSize for Item *)
ItemSize(item) == Len(item.token_ids)

-----------------------------------------------------------------------------
(* The batcher (loading.rs, specification 4.4).                            *)

(* Step 3: would adding `item` to the batch `cur` exceed the limit?         *)
(* BatchSize: count + 1 > limit.  TokenCount: the padded-rectangle cost of *)
(* the batch with the item added, (running maximum item size) * (count+1), *)
(* exceeds the limit; the running maximum has taken the item in.           *)
(* a variant of LimitReached whose maximum leaves the next item out *)
LimitReachedBefore(cur, item, limit, limit_type) ==
    IF limit_type = "BatchSize"
    THEN Len(cur) + 1 > limit
    ELSE (IF cur = <<>> THEN 0
          ELSE CHOOSE m \in {Len(cur[i].token_ids) : i \in 1..Len(cur)} :
                  \A i \in 1..Len(cur) : Len(cur[i].token_ids) <= m) * (Len(cur) + 1) > limit

RECURSIVE MaxSize(_)
MaxSize(items) ==
    IF items = <<>> THEN 0 ELSE Max(ItemSize(Head(items)), MaxSize(Tail(items)))

LimitReached(cur, item, limit, limit_type) ==
    IF limit_type = "BatchSize"
    THEN Len(cur) + 1 > limit
    ELSE Max(MaxSize(cur), ItemSize(item)) * (Len(cur) + 1) > limit

(* Step 3: scan the buffer left to right; a batch is closed when the next   *)
(* item would exceed the limit; the first item of a batch is always taken  *)
(* (the singleton exception), so no batch is empty.                        *)
RECURSIVE Accumulate(_, _, _, _, _)
Accumulate(buf, cur, out, limit, limit_type) ==
    IF buf = <<>>
    THEN IF cur = <<>> THEN out ELSE Append(out, cur)
    ELSE IF cur # <<>> /\ LimitReached(cur, Head(buf), limit, limit_type)
         THEN Accumulate(Tail(buf), <<Head(buf)>>, Append(out, cur), limit, limit_type)
         ELSE Accumulate(Tail(buf), Append(cur, Head(buf)), out, limit, limit_type)

(* Step 2: stable ascending order by item size (insertion sort) *)
RECURSIVE InsertBySize(_, _)
InsertBySize(sorted, item) ==
    IF sorted = <<>> THEN <<item>>
    ELSE IF ItemSize(Head(sorted)) <= ItemSize(item)
         THEN <<Head(sorted)>> \o InsertBySize(Tail(sorted), item)
         ELSE <<item>> \o sorted

RECURSIVE SortBySize(_)
SortBySize(items) ==
    IF items = <<>> THEN <<>>
    ELSE InsertBySize(SortBySize(SubSeq(items, 1, Len(items) - 1)), items[Len(items)])

(* Step 4: a permutation of the batches that is a function of the seed      *)
(* alone (the seeded generator of loading.rs is not at hand: a rotation).  *)
ShuffleBatches(batches, seed) ==
    LET n == Len(batches)
        k == IF n = 0 \/ ~IsSome(seed) THEN 0 ELSE (Unwrap(seed) + 1) % n
    IN  [i \in 1..n |-> batches[((i - 1 + k) % n) + 1]]

(* Steps 1 to 4 on one prefetch window *)
WindowBatches(window, sort, shuffle, limit, limit_type, seed) ==
    LET buf == IF sort THEN SortBySize(window) ELSE window
        batches == Accumulate(buf, <<>>, <<>>, limit, limit_type)
    IN  IF shuffle THEN ShuffleBatches(batches, seed) ELSE batches

(* Steps 1 and 5: the upstream items are taken in prefetch windows of       *)
(* prefetch * limit items until upstream ends.                             *)
RECURSIVE Batched(_, _, _, _, _, _, _)
Batched(items, sort, shuffle, prefetch, limit, limit_type, seed) ==
    IF items = <<>> THEN <<>>
    ELSE LET n == Max(1, prefetch * limit)
         IN  WindowBatches(Take(items, n), sort, shuffle, limit, limit_type, seed)
             \o Batched(Skip(items, n), sort, shuffle, prefetch, limit, limit_type, seed)

-----------------------------------------------------------------------------
(* The training loader: DataLoader::new                                    *)

(* prefetch_factor.max(1) *)
PrefetchFactor(prefetch_factor) == Max(prefetch_factor, 1)

(* limit.unwrap_or(usize::MAX) *)
LimitOrMax(limit) == IF IsSome(limit) THEN Unwrap(limit) ELSE UsizeMax

(* distributed.unwrap_or((0, 1)) *)
RankWorld(distributed) == IF IsSome(distributed) THEN Unwrap(distributed) ELSE <<0, 1>>

(* a variant of New without the check of the seed *)
NewUnchecked(args) ==
    IF ~(RankWorld(args.distributed)[1] < RankWorld(args.distributed)[2])
    THEN [status |-> "panic"]
    ELSE [status |-> "ok",
          batch_limit |-> args.batch_limit,
          batch_limit_type |-> args.batch_limit_type,
          limit |-> LimitOrMax(args.limit),
          skip |-> args.skip,
          rank |-> RankWorld(args.distributed)[1],
          world_size |-> RankWorld(args.distributed)[2],
          seed |-> args.seed,
          shuffle |-> args.shuffle,
          prefetch_factor |-> PrefetchFactor(args.prefetch_factor),
          sort |-> args.sort]

(* DataLoader::new: a configuration error when shuffle has no seed, a      *)
(* panic of the assertion when rank >= world_size, a loader otherwise.     *)
New(args) ==
    IF args.shuffle /\ ~IsSome(args.seed)
    THEN [status |-> "config_error"]
    ELSE IF ~(RankWorld(args.distributed)[1] < RankWorld(args.distributed)[2])
    THEN [status |-> "panic"]
    ELSE [status |-> "ok",
          batch_limit |-> args.batch_limit,
          batch_limit_type |-> args.batch_limit_type,
          limit |-> LimitOrMax(args.limit),
          skip |-> args.skip,
          rank |-> RankWorld(args.distributed)[1],
          world_size |-> RankWorld(args.distributed)[2],
          seed |-> args.seed,
          shuffle |-> args.shuffle,
          prefetch_factor |-> PrefetchFactor(args.prefetch_factor),
          sort |-> args.sort]

(* The arguments a caller may pass *)
Streams ==
    {[i \in 1..n |-> IF i = b THEN k ELSE "ok"] :
        n \in 0..MaxLen, b \in 0..MaxLen, k \in {"src_err", "pipe_err"}}
Distributed ==
    {None} \cup {Some(<<r, w>>) : r \in 0..MaxWorld, w \in 0..MaxWorld}
Configs ==
    {<<None, FALSE, FALSE, 2, "BatchSize">>, <<None, FALSE, FALSE, 4, "TokenCount">>,
     <<Some(1), FALSE, FALSE, 4, "TokenCount">>, <<Some(1), TRUE, FALSE, 2, "BatchSize">>,
     <<Some(1), TRUE, TRUE, 4, "TokenCount">>, <<None, FALSE, TRUE, 2, "BatchSize">>,
     <<None, TRUE, FALSE, 2, "BatchSize">>}
Args ==
    {[skip |-> s, limit |-> l, distributed |-> d, seed |-> x[1], shuffle |-> x[2],
      sort |-> x[3], batch_limit |-> x[4], batch_limit_type |-> x[5],
      prefetch_factor |-> 0] :
        s \in 0..MaxSkip,
        l \in {None} \cup {Some(n) : n \in 0..MaxLimit},
        d \in Distributed,
        x \in Configs}

-----------------------------------------------------------------------------
(* DataLoader::init_iter                                                   *)

(* a variant of IterSeed that leaves the epoch out *)
IterSeedNoEpoch(seed, ep) == seed

(* the per-iteration seed: seed + epoch when a seed is given *)
IterSeed(seed, ep) == IF IsSome(seed) THEN Some(Unwrap(seed) + ep) ELSE None

(* a variant of MinItems that subtracts what the shard skips *)
MinItemsOfShard(min_len, limit, skip, rank, world_size, ff) ==
    SaturatingSub(Min(min_len, limit), skip + ff + rank) \div world_size

(* a variant of MinItems that rounds the quotient up *)
MinItemsRoundedUp(min_len, limit, skip, rank, world_size, ff) ==
    (SaturatingSub(Min(min_len, limit), skip) + world_size - 1) \div world_size

(* min_items: text_iter.min_len().min(limit).saturating_sub(skip) / world_size *)
MinItems(min_len, limit, skip, rank, world_size, ff) ==
    SaturatingSub(Min(min_len, limit), skip) \div world_size

(* variants of Shard: step_by before skip; skip before take; no rank offset *)
ShardStepFirst(text, limit, skip, ff, rank, world_size) ==
    Skip(StepBy(Take(text, limit), world_size), skip + ff + rank)
ShardSkipFirst(text, limit, skip, ff, rank, world_size) ==
    StepBy(Take(Skip(text, skip + ff + rank), limit), world_size)
ShardNoRank(text, limit, skip, ff, rank, world_size) ==
    StepBy(Skip(Take(text, limit), skip + ff), world_size)

(* text_iter.take(limit).skip(skip + fast_forward + rank).step_by(world_size) *)
Shard(text, limit, skip, ff, rank, world_size) ==
    StepBy(Skip(Take(text, limit), skip + ff + rank), world_size)

(* a variant of Fed that ends at the first failing record *)
FedUntilError(text, limit, skip, ff, rank, world_size) ==
    LET sh == Shard(text, limit, skip, ff, rank, world_size)
        bad == {k \in 1..Len(sh) : ~SourceOk(sh[k])}
        first == IF bad = {} THEN Len(sh) + 1
                 ELSE CHOOSE k \in bad : \A j \in bad : k <= j
    IN  SubSeq(sh, 1, first - 1)

(* .filter_map(|d| d.ok()): the records handed to the pipeline stage *)
Fed(text, limit, skip, ff, rank, world_size) ==
    SelectSeq(Shard(text, limit, skip, ff, rank, world_size), SourceOk)

(* .pipe(&self.pipeline, self.num_threads, seed): the k-th output is the    *)
(* pipeline applied to the k-th input with index k (specification 4.3;     *)
(* the worker pool is modelled by the pipeline stage further down).        *)
Pipe(inputs, seed) == [k \in 1..Len(inputs) |-> Apply(inputs[k], k - 1, seed)]

(* .filter_map(|i| i.ok()): the items handed to the batcher *)
Items(inputs, seed) == SelectSeq(Pipe(inputs, seed), ItemOk)

(* the iterator init_iter builds for a loader `self` from the per-iteration *)
(* seed and the fast_forward in force; tensorized() and buffered() keep    *)
(* the batches and their order.  `ff` records the fast_forward the skip    *)
(* adaptor captured.                                                       *)
IterOf(text, self, seed, ff) ==
    LET fed == Fed(text, self.limit, self.skip, ff, self.rank, self.world_size)
    IN  [text_seed |-> seed, pipe_seed |-> seed, batch_seed |-> seed, ff |-> ff,
         fed |-> fed,
         batches |-> Batched(Items(fed, seed), self.sort, self.shuffle,
                             self.prefetch_factor, self.batch_limit,
                             self.batch_limit_type, seed)]

BuildIter(text, self, ep, ff) == IterOf(text, self, IterSeed(self.seed, ep), ff)

-----------------------------------------------------------------------------
(* The training loader as a state machine                                  *)

(* the threads of an iteration are not part of this view of the loader *)
PipeIdle ==
    /\ p_threads = 0 /\ p_buffer_size = 0 /\ p_seed = None /\ p_inputs = <<>>
    /\ p_next = 0 /\ p_inchan = <<>> /\ p_work = <<>> /\ p_done = {} /\ p_out = <<>>
    /\ b_window = <<>> /\ b_pending = <<>> /\ q = <<>>

(* no batch is being tensorized in this view *)
TensorIdle ==
    /\ t_items = <<>>
    /\ t_tokenizer = [pad_token_id |-> 0, num_prefix_tokens |-> 0]
    /\ tensorized = None

(* no function is called on its own in this view *)
FnIdle == f_args = <<>> /\ f_result = None

(* no inference loader in this view *)
InferIdle ==
    /\ iter_err = None /\ i_read = 0 /\ i_src_ended = FALSE /\ i_pipe_ended = FALSE
    /\ i_flat = <<>>

MinLens(n) == {m \in {n - 1, n} : m >= 0}

InitLoader ==
    /\ mode = "loader"
    /\ stream \in Streams
    /\ text_min_len \in MinLens(Len(stream))
    /\ \E a \in Args : dl = New(a)
    /\ epoch = 0
    /\ fast_forward = 0
    /\ min_items = None
    /\ iter = None
    /\ yielded = <<>>
    /\ ret = "new"
    /\ PipeIdle
    /\ TensorIdle
    /\ InferIdle /\ FnIdle

(* what init_iter stores in min_items and iter *)
InitIterMinItems ==
    Some(MinItems(text_min_len, dl.limit, dl.skip, dl.rank, dl.world_size, fast_forward))
InitIterIter == Some(BuildIter(TextIter(stream), dl, epoch, fast_forward))

(* DataLoader::__iter__ *)
Iter ==
    /\ dl.status = "ok"
    /\ min_items' = InitIterMinItems
    /\ iter' = InitIterIter
    /\ yielded' = <<>>
    /\ ret' = "iter"
    /\ UNCHANGED <<mode, stream, text_min_len, dl, epoch, fast_forward, pipeVars, tensorVars, inferVars, fnVars>>

(* DataLoader::__next__: builds the iterator when there is none, then pulls *)
NextBatch ==
    /\ dl.status = "ok"
    /\ LET it == Unwrap(IF IsSome(iter) THEN iter ELSE InitIterIter)
       IN  /\ min_items' = (IF IsSome(iter) THEN min_items ELSE InitIterMinItems)
           /\ IF it.batches # <<>>
              THEN /\ iter' = Some([it EXCEPT !.batches = Tail(@)])
                   /\ yielded' = Append(yielded, Head(it.batches))
                   /\ ret' = "batch"
              ELSE /\ iter' = Some(it)
                   /\ yielded' = yielded
                   /\ ret' = "stop"
    /\ UNCHANGED <<mode, stream, text_min_len, dl, epoch, fast_forward, pipeVars, tensorVars, inferVars, fnVars>>

(* DataLoader::set_epoch *)
SetEpoch(e) ==
    /\ dl.status = "ok"
    /\ epoch' = e
    /\ UNCHANGED <<mode, stream, text_min_len, dl, fast_forward, min_items, iter, yielded, ret, pipeVars, tensorVars, inferVars, fnVars>>

(* a variant of set_fast_forward that rebuilds the iterator at once *)
SetFastForwardRebuilding(num_items) ==
    /\ dl.status = "ok"
    /\ fast_forward' = num_items
    /\ iter' = (IF IsSome(iter)
                THEN Some(BuildIter(TextIter(stream), dl, epoch, num_items))
                ELSE iter)
    /\ UNCHANGED <<mode, stream, text_min_len, dl, epoch, min_items, yielded, ret, pipeVars, tensorVars, inferVars, fnVars>>

(* DataLoader::set_fast_forward *)
SetFastForward(num_items) ==
    /\ dl.status = "ok"
    /\ fast_forward' = num_items
    /\ UNCHANGED <<mode, stream, text_min_len, dl, epoch, min_items, iter, yielded, ret, pipeVars, tensorVars, inferVars, fnVars>>

NextLoader ==
    \/ Iter
    \/ NextBatch
    \/ \E e \in Epochs : SetEpoch(e)
    \/ \E n \in FastForwards : SetFastForward(n)

Spec == InitLoader /\ [][NextLoader]_vars

-----------------------------------------------------------------------------
(* Properties of the training loader                                       *)

Positions(records) == [i \in 1..Len(records) |-> records[i].pos]
Increasing(ps) == \A i \in 1..(Len(ps) - 1) : ps[i] < ps[i + 1]
(* ps lists exactly the positions of the set E, in increasing order *)
ListsInOrder(ps, E) == Increasing(ps) /\ Range(ps) = E

NoSourceFailure == \A i \in 1..Len(stream) : stream[i] # "src_err"
NoFailure == \A i \in 1..Len(stream) : stream[i] = "ok"
StreamPositions == 0..(Len(stream) - 1)
Exhausted == dl.status = "ok" /\ ret = "stop"
(* the items of the batches pulled so far, in the order they were pulled *)
YieldedItems == Concat(yielded)

(* the positions s + f + r + k*W (k >= 0) below `bound` *)
ShardSet(s, f, r, w, bound) ==
    {p \in StreamPositions : p < bound /\ p >= s + f + r /\ (p - (s + f + r)) % w = 0}

(* C1: with no failing source record, the records handed to the pipeline   *)
(* by the loader of rank r are exactly the stream positions                *)
(* skip + fast_forward + r + k*world_size below min(limit, stream length), *)
(* in increasing order; for the same fast_forward the shards of the ranks  *)
(* 0..world_size-1 are pairwise disjoint and cover                         *)
(* [skip + fast_forward, min(limit, stream length)).                       *)
C1_ShardPositions ==
    (dl.status = "ok" /\ IsSome(iter) /\ NoSourceFailure) =>
        LET it == Unwrap(iter)
            bound == Min(dl.limit, Len(stream))
            OfRank(r) == Range(Positions(Fed(TextIter(stream), dl.limit, dl.skip,
                                            it.ff, r, dl.world_size)))
            Ranks == 0..(dl.world_size - 1)
        IN  /\ ListsInOrder(Positions(it.fed),
                            ShardSet(dl.skip, it.ff, dl.rank, dl.world_size, bound))
            /\ \A r1, r2 \in Ranks : r1 # r2 => OfRank(r1) \cap OfRank(r2) = {}
            /\ UNION {OfRank(r) : r \in Ranks}
                   = {p \in StreamPositions : dl.skip + it.ff <= p /\ p < bound}

(* C1 witness: an exhausted iteration of rank 1 of 2 that handed records to *)
(* the pipeline from a stream longer than the explicit limit               *)
C1_Witness ==
    /\ Exhausted /\ NoSourceFailure
    /\ dl.world_size = 2 /\ dl.rank = 1
    /\ dl.limit < Len(stream)
    /\ Unwrap(iter).fed # <<>>

(* the item sequence of a loader `self` iterated to exhaustion under the    *)
(* per-iteration seed `seed` and the fast_forward `ff`                     *)
ItemSeq(text, self, seed, ff) == Concat(IterOf(text, self, seed, ff).batches)

(* the loader of another rank of the same job *)
OfRank(self, r) == [self EXCEPT !.rank = r]

(* the positions of the window [lo, hi) that `r` of `w` ranks receives:     *)
(* lo + r, lo + r + w, ... below hi, failing records being skipped         *)
WindowSet(lo, hi, r, w) ==
    {p \in StreamPositions :
        /\ lo + r <= p /\ p < hi /\ (p - (lo + r)) % w = 0
        /\ stream[p + 1] = "ok"}

(* C2 as stated: with shuffle=false and sort=false rank r receives the      *)
(* positions skip+r, skip+r+W, ... below skip+limit, and the ranks together *)
(* receive the window [skip, skip+limit) of the stream.                    *)
C2_Original ==
    (Exhausted /\ ~dl.shuffle /\ ~dl.sort /\ Unwrap(iter).ff = 0 /\ dl.limit < UsizeMax) =>
        LET it == Unwrap(iter)
            hi == dl.skip + dl.limit
        IN  /\ ListsInOrder(Positions(YieldedItems),
                            WindowSet(dl.skip, hi, dl.rank, dl.world_size))
            /\ UNION {Range(Positions(ItemSeq(TextIter(stream), OfRank(dl, r), it.pipe_seed, 0))) :
                         r \in 0..(dl.world_size - 1)}
                   = WindowSet(dl.skip, hi, 0, 1)

(* the second scenario of the specification: 10 records, skip=3, limit=6,   *)
(* world_size=2, rank=1, shuffle=false                                     *)
Scenario2 ==
    Positions(ItemSeq(TextIter([i \in 1..10 |-> "ok"]),
                      New([skip |-> 3, limit |-> Some(6), distributed |-> Some(<<1, 2>>),
                           seed |-> None, shuffle |-> FALSE, sort |-> FALSE,
                           batch_limit |-> 2, batch_limit_type |-> "BatchSize",
                           prefetch_factor |-> 0]), None, 0))

(* C2 amended: with shuffle=false, sort=false and fast_forward=0 rank r     *)
(* receives the positions skip+r, skip+r+W, ... below limit (failing       *)
(* records skipped), in order, and the ranks together receive the window   *)
(* [skip, limit) of the stream; in the scenario rank 1 receives {4}.       *)
C2_Window ==
    /\ Scenario2 = <<4>>
    /\ (Exhausted /\ ~dl.shuffle /\ ~dl.sort /\ Unwrap(iter).ff = 0) =>
        LET it == Unwrap(iter)
        IN  /\ ListsInOrder(Positions(YieldedItems),
                            WindowSet(dl.skip, dl.limit, dl.rank, dl.world_size))
            /\ UNION {Range(Positions(ItemSeq(TextIter(stream), OfRank(dl, r), it.pipe_seed, 0))) :
                         r \in 0..(dl.world_size - 1)}
                   = WindowSet(dl.skip, dl.limit, 0, 1)

(* C2 witness: a rank of 2 has received, with skip > 0, an item of a stream *)
(* that is longer than the limit                                           *)
C2_Witness ==
    /\ Exhausted /\ ~dl.shuffle /\ ~dl.sort /\ Unwrap(iter).ff = 0
    /\ dl.world_size = 2 /\ dl.skip > 0
    /\ dl.limit < Len(stream)
    /\ YieldedItems # <<>>

(* the loader built with the same arguments but skip = 0 and limit = l *)
WithSkip0(self, l) == [self EXCEPT !.skip = 0, !.limit = l]
(* no record fails among the first a positions of the stream *)
NoFailureBelow(a) == \A i \in 1..Min(a, Len(stream)) : stream[i] = "ok"

(* C3 as stated: with shuffle=false the item sequence of loader(skip=a,     *)
(* limit=b) equals that of loader(skip=0, limit=a+b) without its first a   *)
(* items.                                                                  *)
C3_Original ==
    (Exhausted /\ ~dl.shuffle /\ Unwrap(iter).ff = 0 /\ dl.limit < UsizeMax) =>
        YieldedItems = Skip(ItemSeq(TextIter(stream), WithSkip0(dl, dl.skip + dl.limit),
                                    Unwrap(iter).pipe_seed, 0), dl.skip)

(* C3 amended: with shuffle=false, sort=false, world_size=1 and no failing  *)
(* record among the first a stream positions, the item sequence of         *)
(* loader(skip=a, limit=b) equals that of loader(skip=0, limit=b) without  *)
(* its first a items (limit bounds the stream positions before skip is     *)
(* applied).                                                               *)
C3_SkipLimit ==
    (Exhausted /\ ~dl.shuffle /\ ~dl.sort /\ dl.world_size = 1
        /\ Unwrap(iter).ff = 0 /\ NoFailureBelow(dl.skip)) =>
        YieldedItems = Skip(ItemSeq(TextIter(stream), WithSkip0(dl, dl.limit),
                                    Unwrap(iter).pipe_seed, 0), dl.skip)

(* C3 witness: a loader with skip > 0 and a limit below the stream length   *)
(* has been iterated to exhaustion and has yielded items                   *)
C3_Witness ==
    /\ Exhausted /\ ~dl.shuffle /\ ~dl.sort /\ dl.world_size = 1
    /\ Unwrap(iter).ff = 0 /\ NoFailureBelow(dl.skip)
    /\ dl.skip > 0 /\ dl.limit < Len(stream)
    /\ YieldedItems # <<>>

(* C4: whenever an iterator has been built min_items is set, and it is      *)
(* floor(max(0, min(min_len, limit) - skip) / world_size), whatever the    *)
(* rank and the fast_forward in force when it was built.                   *)
C4_MinItems ==
    dl.status = "ok" =>
        /\ IsSome(iter) => IsSome(min_items)
        /\ IsSome(min_items) =>
            LET m == Min(text_min_len, dl.limit)
                d == IF m > dl.skip THEN m - dl.skip ELSE 0
                v == Unwrap(min_items)
            IN  v >= 0 /\ v * dl.world_size <= d /\ d < (v + 1) * dl.world_size

(* C4 witness: an iterator built by rank 1 under a fast_forward of 1        *)
(* reports min_items >= 1                                                  *)
C4_Witness ==
    /\ dl.status = "ok" /\ IsSome(iter) /\ IsSome(min_items)
    /\ Unwrap(iter).ff = 1 /\ dl.rank = 1
    /\ Unwrap(min_items) >= 1

-----------------------------------------------------------------------------
(* One training iteration with its threads: the worker pool of the         *)
(* pipeline stage, the batcher and the buffer's background thread          *)
(* (loading.rs; specification 4.3, 4.4, 4.6 and section 9).                *)

MaxThreads == 2     \* num_threads
MaxBuffer == 1      \* buffer_size

(* the loaders whose iteration is followed thread by thread *)
PipeArgs == {a \in Args : a.skip = 0 /\ a.limit = None /\ a.distributed = None}

(* the stage holds at most 4 * W items in flight *)
InFlightCap(w) == 4 * w
(* the input channel holds at most 2 * W items *)
ChannelCap(w) == 2 * w
InFlight == Len(p_inchan) + Cardinality({w \in DOMAIN p_work : IsSome(p_work[w])})
                + Cardinality(p_done)

(* the batcher's prefetch buffer holds prefetch * limit items *)
WindowSize(self) == Max(1, self.prefetch_factor * self.batch_limit)

(* a variant of Releasable: any completed output may be released *)
ReleasableAny(d) == TRUE
(* the sink releases the completed output whose tag is the next index *)
Releasable(d) == d.idx = Len(p_out)

(* the state init_iter leaves when the threads are followed: the stage is   *)
(* fed the shard of the loader, every stage is handed the per-iteration    *)
(* seed, no worker holds an item.                                          *)
InitPipe ==
    /\ mode = "pipe"
    /\ stream \in Streams
    /\ text_min_len = Len(stream)
    /\ \E a \in PipeArgs : dl = New(a)
    /\ dl.status = "ok"
    /\ epoch \in Epochs
    /\ fast_forward = 0
    /\ min_items = Some(MinItems(text_min_len, dl.limit, dl.skip, dl.rank, dl.world_size, 0))
    /\ iter = None
    /\ yielded = <<>>
    /\ ret = "iter"
    /\ p_threads \in 1..MaxThreads
    /\ p_buffer_size \in 1..MaxBuffer
    /\ p_seed = IterSeed(dl.seed, epoch)
    /\ p_inputs = Fed(TextIter(stream), dl.limit, dl.skip, 0, dl.rank, dl.world_size)
    /\ p_next = 0
    /\ p_inchan = <<>>
    /\ p_work = [w \in 1..p_threads |-> None]
    /\ p_done = {}
    /\ p_out = <<>>
    /\ b_window = <<>>
    /\ b_pending = <<>>
    /\ q = <<>>
    /\ TensorIdle
    /\ InferIdle /\ FnIdle

PipeFrame == UNCHANGED <<mode, stream, text_min_len, dl, epoch, fast_forward, min_items,
                         iter, p_threads, p_buffer_size, p_seed, p_inputs, tensorVars, inferVars, fnVars>>

(* the next input is tagged with its index and put on the input channel *)
Dispatch ==
    /\ p_threads > 1
    /\ p_next < Len(p_inputs)
    /\ InFlight < InFlightCap(p_threads)
    /\ Len(p_inchan) < ChannelCap(p_threads)
    /\ p_inchan' = Append(p_inchan, [idx |-> p_next, input |-> p_inputs[p_next + 1]])
    /\ p_next' = p_next + 1
    /\ UNCHANGED <<p_work, p_done, p_out, b_window, b_pending, q, yielded, ret>>
    /\ PipeFrame

(* an idle worker takes the oldest input of the shared channel *)
WorkerTake(w) ==
    /\ ~IsSome(p_work[w])
    /\ p_inchan # <<>>
    /\ p_work' = [p_work EXCEPT ![w] = Some(Head(p_inchan))]
    /\ p_inchan' = Tail(p_inchan)
    /\ UNCHANGED <<p_next, p_done, p_out, b_window, b_pending, q, yielded, ret>>
    /\ PipeFrame

(* a worker applies the pipeline and hands on the output with its tag *)
WorkerFinish(w) ==
    /\ IsSome(p_work[w])
    /\ LET t == Unwrap(p_work[w])
       IN  p_done' = p_done \cup {[idx |-> t.idx, val |-> Apply(t.input, t.idx, p_seed)]}
    /\ p_work' = [p_work EXCEPT ![w] = None]
    /\ UNCHANGED <<p_next, p_inchan, p_out, b_window, b_pending, q, yielded, ret>>
    /\ PipeFrame

(* the batcher pulls the next output of the stage into its prefetch        *)
(* buffer; filter_map(|i| i.ok()) drops a failed one                       *)
Pulled(d) ==
    /\ p_out' = Append(p_out, d)
    /\ b_window' = IF ItemOk(d.val) THEN Append(b_window, d.val) ELSE b_window

StagePull ==
    /\ p_threads > 1
    /\ b_pending = <<>>
    /\ Len(b_window) < WindowSize(dl)
    /\ \E d \in p_done :
        /\ Releasable(d)
        /\ Pulled(d)
        /\ p_done' = p_done \ {d}
    /\ UNCHANGED <<p_next, p_inchan, p_work, b_pending, q, yielded, ret>>
    /\ PipeFrame

(* with one thread the stage runs inline on the pulling thread *)
StagePullInline ==
    /\ p_threads = 1
    /\ b_pending = <<>>
    /\ Len(b_window) < WindowSize(dl)
    /\ p_next < Len(p_inputs)
    /\ Pulled([idx |-> p_next, val |-> Apply(p_inputs[p_next + 1], p_next, p_seed)])
    /\ p_next' = p_next + 1
    /\ UNCHANGED <<p_inchan, p_work, p_done, b_pending, q, yielded, ret>>
    /\ PipeFrame

UpstreamEnded == Len(p_out) = Len(p_inputs)

(* the batcher turns a full prefetch buffer, or the rest at the end of the  *)
(* upstream, into batches                                                  *)
FormBatches ==
    /\ b_pending = <<>>
    /\ b_window # <<>>
    /\ Len(b_window) = WindowSize(dl) \/ UpstreamEnded
    /\ b_pending' = WindowBatches(b_window, dl.sort, dl.shuffle, dl.batch_limit,
                                  dl.batch_limit_type, p_seed)
    /\ b_window' = <<>>
    /\ UNCHANGED <<p_next, p_inchan, p_work, p_done, p_out, q, yielded, ret>>
    /\ PipeFrame

(* the buffer's thread puts the next batch on the queue when there is room *)
BufferPush ==
    /\ b_pending # <<>>
    /\ Len(q) < p_buffer_size
    /\ q' = Append(q, Head(b_pending))
    /\ b_pending' = Tail(b_pending)
    /\ UNCHANGED <<p_next, p_inchan, p_work, p_done, p_out, b_window, yielded, ret>>
    /\ PipeFrame

(* DataLoader::__next__ on the buffered iterator: the next batch of the     *)
(* queue, or the end once the producer has ended                           *)
PipeNextBatch ==
    /\ q # <<>>
    /\ yielded' = Append(yielded, Head(q))
    /\ q' = Tail(q)
    /\ ret' = "batch"
    /\ UNCHANGED <<p_next, p_inchan, p_work, p_done, p_out, b_window, b_pending>>
    /\ PipeFrame

PipeNextStop ==
    /\ q = <<>> /\ b_pending = <<>> /\ b_window = <<>> /\ UpstreamEnded
    /\ ret' = "stop"
    /\ UNCHANGED <<p_next, p_inchan, p_work, p_done, p_out, b_window, b_pending, q, yielded>>
    /\ PipeFrame

NextPipe ==
    \/ Dispatch
    \/ \E w \in DOMAIN p_work : WorkerTake(w)
    \/ \E w \in DOMAIN p_work : WorkerFinish(w)
    \/ StagePull
    \/ StagePullInline
    \/ FormBatches
    \/ BufferPush
    \/ PipeNextBatch
    \/ PipeNextStop

SpecPipe == InitPipe /\ [][NextPipe]_vars

-----------------------------------------------------------------------------
(* Properties of an iteration with its threads                             *)

IsPrefix(s, t) == Len(s) <= Len(t) /\ SubSeq(t, 1, Len(s)) = s

(* the batches of the iteration as a function of the sources, the          *)
(* configuration, the seed s and the epoch e alone                         *)
ReferenceBatches ==
    LET seed == IF IsSome(dl.seed) THEN Some(Unwrap(dl.seed) + epoch) ELSE None
    IN  IterOf(TextIter(stream), dl, seed, 0).batches

(* C5: under every schedule of the workers and of the buffer's thread the   *)
(* batches pulled are, in order, the batches determined by the sources,    *)
(* the configuration and the per-iteration seed s + e (which is the seed   *)
(* every stage was handed); an exhausted iteration has yielded all of      *)
(* them, so two iterations yield the identical sequence.                   *)
C5_Deterministic ==
    mode = "pipe" =>
        /\ p_seed = (IF IsSome(dl.seed) THEN Some(Unwrap(dl.seed) + epoch) ELSE None)
        /\ IsPrefix(yielded, ReferenceBatches)
        /\ ret = "stop" => yielded = ReferenceBatches

(* C5 witness: an iteration of epoch 1 with two workers, a seed and shuffle *)
(* has ended after two batches or more                                     *)
C5_Witness ==
    /\ mode = "pipe" /\ ret = "stop"
    /\ p_threads >= 2 /\ IsSome(dl.seed) /\ dl.shuffle /\ epoch = 1
    /\ Len(yielded) >= 2

(* C6: the k-th output pulled from the stage is the pipeline applied to the *)
(* k-th input and carries the index k (counted from 0), whatever the       *)
(* number of workers and the order in which they finish.                   *)
C6_StageOrder ==
    mode = "pipe" =>
        \A k \in 1..Len(p_out) :
            /\ p_out[k].idx = k - 1
            /\ p_out[k].val = WithTokenizer(p_inputs[k], k - 1, p_seed)

(* C6 witness: with two workers an output has been pulled while a later     *)
(* input was completed before the next one                                 *)
C6_Witness ==
    /\ mode = "pipe" /\ p_threads >= 2
    /\ Len(p_out) >= 1
    /\ \E d \in p_done : d.idx > Len(p_out)

-----------------------------------------------------------------------------
(* The batcher on its own: items of any sizes under any limit              *)

MaxItems == 3       \* items upstream of the batcher
MaxTokens == 3      \* token ids of an item
MaxBatchLimit == 4  \* batch_limit
Prefetches == {1, 2}

(* an item with n token ids *)
ItemOfSize(pos, n) == [ok |-> TRUE, pos |-> pos, token_ids |-> [j \in 1..n |-> j]]
ItemSeqs ==
    UNION {{[i \in 1..n |-> ItemOfSize(i - 1, sz[i])] : sz \in [1..n -> 0..MaxTokens]} :
              n \in 0..MaxItems}
BatcherConfigs ==
    {[status |-> "ok", sort |-> x[2], shuffle |-> x[3], seed |-> x[1],
      prefetch_factor |-> PrefetchFactor(pf), batch_limit |-> l, batch_limit_type |-> t] :
        x \in {<<None, FALSE, FALSE>>, <<None, TRUE, FALSE>>,
               <<Some(1), FALSE, TRUE>>, <<Some(1), TRUE, TRUE>>},
        pf \in Prefetches, l \in 1..MaxBatchLimit, t \in {"BatchSize", "TokenCount"}}

InitBatch ==
    /\ mode = "batch"
    /\ stream = <<>> /\ text_min_len = 0
    /\ dl \in BatcherConfigs
    /\ epoch = 0 /\ fast_forward = 0 /\ min_items = None /\ iter = None
    /\ yielded = <<>> /\ ret = "iter"
    /\ p_threads = 0 /\ p_buffer_size = 0
    /\ p_seed = dl.seed
    /\ p_inputs \in ItemSeqs
    /\ p_next = 0 /\ p_inchan = <<>> /\ p_work = <<>> /\ p_done = {} /\ p_out = <<>>
    /\ b_window = <<>> /\ b_pending = <<>> /\ q = <<>>
    /\ TensorIdle
    /\ InferIdle /\ FnIdle

BatchFrame == UNCHANGED <<mode, stream, text_min_len, dl, epoch, fast_forward, min_items,
                          iter, p_threads, p_buffer_size, p_seed, p_inputs, p_inchan,
                          p_work, p_done, p_out, q, tensorVars, inferVars, fnVars>>

(* steps 1 and 2: fill the prefetch buffer from upstream *)
BatcherFill ==
    /\ b_window = <<>> /\ b_pending = <<>>
    /\ p_next < Len(p_inputs)
    /\ LET n == Min(WindowSize(dl), Len(p_inputs) - p_next)
       IN  /\ b_window' = SubSeq(p_inputs, p_next + 1, p_next + n)
           /\ p_next' = p_next + n
    /\ UNCHANGED <<b_pending, yielded, ret>>
    /\ BatchFrame

(* steps 2 to 4: sort, form the batches of the buffer, shuffle them *)
BatcherForm ==
    /\ b_window # <<>>
    /\ b_pending' = WindowBatches(b_window, dl.sort, dl.shuffle, dl.batch_limit,
                                  dl.batch_limit_type, p_seed)
    /\ b_window' = <<>>
    /\ UNCHANGED <<p_next, yielded, ret>>
    /\ BatchFrame

(* the next batch is emitted *)
BatcherEmit ==
    /\ b_pending # <<>>
    /\ yielded' = Append(yielded, Head(b_pending))
    /\ b_pending' = Tail(b_pending)
    /\ ret' = "batch"
    /\ UNCHANGED <<p_next, b_window>>
    /\ BatchFrame

(* step 5: upstream exhausted and buffer empty *)
BatcherEnd ==
    /\ b_window = <<>> /\ b_pending = <<>> /\ p_next = Len(p_inputs)
    /\ ret' = "stop"
    /\ UNCHANGED <<p_next, b_window, b_pending, yielded>>
    /\ BatchFrame

NextBatcher == BatcherFill \/ BatcherForm \/ BatcherEmit \/ BatcherEnd

SpecBatch == InitBatch /\ [][NextBatcher]_vars

(* the number of token ids of the largest item of a batch *)
LargestSize(batch) ==
    CHOOSE m \in {Len(batch[i].token_ids) : i \in 1..Len(batch)} :
        \A i \in 1..Len(batch) : Len(batch[i].token_ids) <= m

(* C7: every emitted batch has at least one item; under BatchSize at most   *)
(* batch_limit items; under TokenCount with sort, items * (largest number  *)
(* of token ids) <= batch_limit unless it is a single item whose own       *)
(* number of token ids exceeds the limit.  Every item is emitted once.     *)
C7_BatchBounds ==
    mode = "batch" =>
        /\ \A b \in 1..Len(yielded) :
            LET batch == yielded[b]
            IN  /\ Len(batch) >= 1
                /\ dl.batch_limit_type = "BatchSize" => Len(batch) <= dl.batch_limit
                /\ (dl.batch_limit_type = "TokenCount" /\ dl.sort) =>
                       \/ Len(batch) * LargestSize(batch) <= dl.batch_limit
                       \/ Len(batch) = 1 /\ Len(batch[1].token_ids) > dl.batch_limit
        /\ ret = "stop" => Len(Concat(yielded)) = Len(p_inputs)

(* C7 witness: under TokenCount with sort the batcher has emitted a batch   *)
(* of several items of different sizes and a single oversized item         *)
C7_Witness ==
    /\ mode = "batch" /\ dl.batch_limit_type = "TokenCount" /\ dl.sort
    /\ \E b \in 1..Len(yielded) :
          Len(yielded[b]) >= 2 /\ ItemSize(yielded[b][1]) # ItemSize(yielded[b][2])
    /\ \E b \in 1..Len(yielded) :
          Len(yielded[b]) = 1 /\ ItemSize(yielded[b][1]) > dl.batch_limit


-----------------------------------------------------------------------------
(* Tensorization: max_groups, join, prepare and the two impls of Tensorize *)

MaxBatch == 2     \* items of a batch
MaxIds == 2       \* token ids of a tokenization
MaxLabels == 2    \* label ids of a sequence label
TokenIds == {1, 2}
PadTokenIds == {0, 1}
PrefixTokens == {0, 1}
LabelValues == {0, 1}

(* the sequences over S of length at most n *)
SeqsUpTo(S, n) == UNION {[1..k -> S] : k \in 0..n}

(* vec![v; n] *)
Repeat(v, n) == [k \in 1..n |-> v]

(* TokenizationInfo, as far as max_groups reads it: for TokenGroups the     *)
(* length of the group list under each of the two keys, None for no key    *)
Empty == [kind |-> "Empty", code_point_groups |-> None, byte_groups |-> None]
TokenGroups(cpg, bg) == [kind |-> "TokenGroups", code_point_groups |-> cpg, byte_groups |-> bg]
Infos == {Empty, TokenGroups(Some(3), Some(1)), TokenGroups(None, Some(1))}

(* fn size, local to max_groups *)
size(tokenization) ==
    IF tokenization.info.kind = "TokenGroups" /\ IsSome(tokenization.info.code_point_groups)
    THEN Unwrap(tokenization.info.code_point_groups)
    ELSE IF tokenization.info.kind = "TokenGroups" /\ IsSome(tokenization.info.byte_groups)
    THEN Unwrap(tokenization.info.byte_groups)
    ELSE Len(tokenization.token_ids)

(* .max().unwrap_or(0) of a vector of usize *)
MaxOr0(v) ==
    IF v = <<>> THEN 0
    ELSE CHOOSE m \in {v[i] : i \in 1..Len(v)} : \A i \in 1..Len(v) : v[i] <= m

(* fn max_groups *)
max_groups(tokenizations) ==
    MaxOr0([i \in 1..Len(tokenizations) |-> size(tokenizations[i])])

(* fn join *)
RECURSIVE join(_)
join(vectors) ==
    IF vectors = <<>> THEN <<>> ELSE Head(vectors) \o join(Tail(vectors))

(* Array1::from_vec(v).into_dyn() *)
Array1(v) == [ndim |-> 1, shape |-> <<Len(v)>>, data |-> v]

(* Array2::from_shape_vec((rows, cols), v): an error unless rows * cols     *)
(* elements are given; the array keeps them in row-major order             *)
from_shape_vec(rows, cols, v) ==
    IF rows * cols = Len(v)
    THEN Some([ndim |-> 2, shape |-> <<rows, cols>>, data |-> v])
    ELSE None

(* a panic of the thread that tensorizes *)
Panic(at) == [status |-> "panic", at |-> at]

(* a variant of prepare that pads in front of the token ids *)
prepare_pad_first(tokenizations, pad_token_id) ==
    LET batch_size == Len(tokenizations)
        max_token_ids == MaxOr0([i \in 1..batch_size |-> Len(tokenizations[i].token_ids)])
        token_ids == join([i \in 1..batch_size |->
                        Repeat(pad_token_id, max_token_ids - Len(tokenizations[i].token_ids))
                        \o tokenizations[i].token_ids])
    IN  [status |-> "ok",
         token_ids |-> [ndim |-> 2, shape |-> <<batch_size, max_token_ids>>, data |-> token_ids],
         lengths |-> [i \in 1..batch_size |-> Len(tokenizations[i].token_ids)]]

(* fn prepare: the token id array and the lengths (the info dict is empty) *)
prepare(tokenizations, pad_token_id) ==
    LET batch_size == Len(tokenizations)
        max_token_ids == MaxOr0([i \in 1..batch_size |-> Len(tokenizations[i].token_ids)])
        token_ids == join([i \in 1..batch_size |->
                        join(<<tokenizations[i].token_ids,
                               Repeat(pad_token_id,
                                      max_token_ids - Len(tokenizations[i].token_ids))>>)])
        lengths == [i \in 1..batch_size |-> Len(tokenizations[i].token_ids)]
        token_id_arr == from_shape_vec(batch_size, max_token_ids, token_ids)
    IN  IF IsSome(token_id_arr)
        THEN [status |-> "ok", token_ids |-> Unwrap(token_id_arr), lengths |-> lengths]
        ELSE Panic("unwrap")

Tokenizations(items) == [i \in 1..Len(items) |-> items[i].tokenization]

(* the vector one item appends to labels in Batch<Item>::tensorize *)
LabelRow(label, groups, num_prefix_tokens) ==
    IF label.variant = "Classification"
    THEN label.labels
    ELSE join(<<Repeat(-1, num_prefix_tokens),
                label.labels,
                Repeat(-1, SaturatingSub(groups, num_prefix_tokens + Len(label.labels)))>>)

(* let label_arr = match labels.len() { .. }, before the unwrap *)
LabelArr(items, labels) ==
    IF Len(labels) = Len(items)
    THEN Some(Array1(labels))
    ELSE from_shape_vec(Len(items), Len(labels) \div Len(items), labels)

(* impl Tensorize for Batch<Item> *)
tensorize_Item(items, tok) ==
    IF items = <<>> THEN Panic("assert")
    ELSE
    LET prepared == prepare(Tokenizations(items), tok.pad_token_id)
        batch_size == Len(items)
        mg == max_groups(Tokenizations(items))
        labels == join([i \in 1..batch_size |->
                          LabelRow(items[i].label, mg, tok.num_prefix_tokens)])
        label_arr == LabelArr(items, labels)
    IN  IF prepared.status = "panic" THEN prepared
        ELSE IF \E i \in 1..batch_size : items[i].label.variant = "Seq2Seq" THEN Panic("todo")
        ELSE IF ~IsSome(label_arr) THEN Panic("unwrap")
        ELSE [status |-> "ok", token_ids |-> prepared.token_ids,
              lengths |-> prepared.lengths, labels |-> Unwrap(label_arr)]

(* impl Tensorize for Batch<InferenceItem> *)
tensorize_InferenceItem(items, tok) == prepare(Tokenizations(items), tok.pad_token_id)

Tokenizers ==
    {[pad_token_id |-> p, num_prefix_tokens |-> n] : p \in PadTokenIds, n \in PrefixTokens}

Labels ==
    {[variant |-> "Classification", labels |-> <<l>>] : l \in LabelValues}
    \cup {[variant |-> "SeqClassification", labels |-> ls] : ls \in SeqsUpTo(LabelValues, MaxLabels)}
    \cup {[variant |-> "Seq2Seq", labels |-> <<0>>]}

(* training items: token ids 1..n, any info, any label *)
TrainingItems ==
    {[tokenization |-> [token_ids |-> [j \in 1..n |-> j], info |-> f], label |-> l] :
        n \in 0..MaxIds, f \in Infos, l \in Labels}

(* inference items: any token ids *)
InferenceItems ==
    {[tokenization |-> [token_ids |-> ids, info |-> Empty]] : ids \in SeqsUpTo(TokenIds, MaxIds)}

LoaderIdle ==
    /\ stream = <<>> /\ text_min_len = 0
    /\ dl = [status |-> "none"]
    /\ epoch = 0 /\ fast_forward = 0 /\ min_items = None /\ iter = None
    /\ yielded = <<>> /\ ret = "new"

InitTraining ==
    /\ mode = "training"
    /\ LoaderIdle /\ PipeIdle /\ InferIdle /\ FnIdle
    /\ t_items \in SeqsUpTo(TrainingItems, MaxBatch)
    /\ t_tokenizer \in Tokenizers
    /\ tensorized = None

InitInference ==
    /\ mode = "inference"
    /\ LoaderIdle /\ PipeIdle /\ InferIdle /\ FnIdle
    /\ t_items \in SeqsUpTo(InferenceItems, MaxBatch)
    /\ t_tokenizer \in Tokenizers
    /\ tensorized = None

(* Batch<Item>::tensorize is called on the batch *)
TensorizeTraining ==
    /\ mode = "training"
    /\ tensorized = None
    /\ tensorized' = Some(tensorize_Item(t_items, t_tokenizer))
    /\ UNCHANGED <<mode, loaderVars, pipeVars, t_items, t_tokenizer, inferVars, fnVars>>

(* Batch<InferenceItem>::tensorize is called on the batch *)
TensorizeInference ==
    /\ mode = "inference"
    /\ tensorized = None
    /\ tensorized' = Some(tensorize_InferenceItem(t_items, t_tokenizer))
    /\ UNCHANGED <<mode, loaderVars, pipeVars, t_items, t_tokenizer, inferVars, fnVars>>

SpecTraining == InitTraining /\ [][TensorizeTraining]_vars

SpecInference == InitInference /\ [][TensorizeInference]_vars

(* the output of the call, and what the properties compare it with *)
Out == Unwrap(tensorized)
B == Len(t_items)
Ids(i) == t_items[i].tokenization.token_ids
MaxLength ==
    CHOOSE m \in {Len(Ids(i)) : i \in 1..B} : \A i \in 1..B : Len(Ids(i)) <= m
(* cell [i, j] of a 2-dimensional array, rows and columns counted from 0 *)
Cell(arr, i, j) == arr.data[i * arr.shape[2] + j + 1]
(* row i of a 2-dimensional array *)
Row(arr, i) == [j \in 1..arr.shape[2] |-> Cell(arr, i, j - 1)]

(* C8: for a non-empty batch the token id array has B rows and max(lengths) *)
(* columns, lengths has B entries with lengths[i] the token count of item  *)
(* i, cell [i, j] is item i's j-th token id for j < lengths[i] and         *)
(* pad_token_id from there on, so the unpadded prefix of row i is item     *)
(* i's token ids; an inference batch is always tensorized.                 *)
C8_Padded ==
    (mode \in {"inference", "training"} /\ IsSome(tensorized) /\ B >= 1) =>
        /\ mode = "inference" => Out.status = "ok"
        /\ Out.status = "ok" =>
            /\ Out.token_ids.ndim = 2
            /\ Out.token_ids.shape = <<B, MaxLength>>
            /\ Len(Out.token_ids.data) = B * MaxLength
            /\ Len(Out.lengths) = B
            /\ \A i \in 1..B :
                /\ Out.lengths[i] = Len(Ids(i))
                /\ \A j \in 0..(MaxLength - 1) :
                      Cell(Out.token_ids, i - 1, j) =
                          IF j < Out.lengths[i] THEN Ids(i)[j + 1]
                          ELSE t_tokenizer.pad_token_id
                /\ SubSeq(Row(Out.token_ids, i - 1), 1, Out.lengths[i]) = Ids(i)

(* C8 witness: a tensorized batch of two items of different lengths, the    *)
(* shorter one first, whose tokens include the pad token id                *)
C8_Witness ==
    /\ mode = "inference" /\ IsSome(tensorized) /\ Out.status = "ok"
    /\ B = 2 /\ Len(Ids(1)) = 1 /\ Len(Ids(2)) = 2
    /\ Ids(2)[1] = t_tokenizer.pad_token_id
    /\ Cell(Out.token_ids, 0, 1) = t_tokenizer.pad_token_id

AllVariant(v) == \A i \in 1..B : t_items[i].label.variant = v
Groups == max_groups(Tokenizations(t_items))
(* the row the specification gives item i of a sequence classification batch *)
ExpectedRow(i) ==
    Repeat(-1, t_tokenizer.num_prefix_tokens)
    \o t_items[i].label.labels
    \o Repeat(-1, Groups - t_tokenizer.num_prefix_tokens - Len(t_items[i].label.labels))

(* C9 as claimed: for a batch of sequence classification labels the label   *)
(* array has B rows and max_groups columns, row i being num_prefix_tokens  *)
(* times -1, item i's label ids, then -1 up to column max_groups.          *)
C9_Original ==
    (mode = "training" /\ IsSome(tensorized) /\ B >= 1 /\ AllVariant("SeqClassification")) =>
        /\ Out.status = "ok"
        /\ Out.labels.ndim = 2
        /\ Out.labels.shape = <<B, Groups>>
        /\ \A i \in 1..B : Row(Out.labels, i - 1) = ExpectedRow(i)

(* C9: the state the failing input leads to, one item with two token ids    *)
(* and two label ids behind one prefix token: a row of three columns       *)
C9_Witness ==
    /\ mode = "training" /\ IsSome(tensorized) /\ AllVariant("SeqClassification")
    /\ B = 1 /\ Groups = 2 /\ t_tokenizer.num_prefix_tokens = 1
    /\ t_items[1].label.labels = <<0, 1>>
    /\ Out.status = "ok" /\ Out.labels.shape = <<1, 3>> /\ Out.labels.data = <<-1, 0, 1>>

(* C10 as claimed: the label array is 1-dimensional of length B when all    *)
(* labels are Classification and 2-dimensional [B x max_groups] when all   *)
(* are SequenceClassification, for every B >= 1 and max_groups >= 1.       *)
C10_Original ==
    (mode = "training" /\ IsSome(tensorized) /\ B >= 1) =>
        /\ AllVariant("Classification") =>
              Out.status = "ok" /\ Out.labels.ndim = 1 /\ Out.labels.shape = <<B>>
        /\ (AllVariant("SeqClassification") /\ Groups >= 1) =>
              Out.status = "ok" /\ Out.labels.ndim = 2 /\ Out.labels.shape = <<B, Groups>>

(* C10: the state the failing input leads to, two sequence classification   *)
(* items of one token id and one label id each: a 1-dimensional array      *)
C10_Witness ==
    /\ mode = "training" /\ IsSome(tensorized) /\ AllVariant("SeqClassification")
    /\ B = 2 /\ Groups = 1 /\ t_tokenizer.num_prefix_tokens = 0
    /\ \A i \in 1..B : Len(t_items[i].label.labels) = 1
    /\ Out.status = "ok" /\ Out.labels.ndim = 1 /\ Out.labels.shape = <<2>>


(* the batch holds a Classification and a SequenceClassification label *)
Mixed ==
    /\ \E i \in 1..B : t_items[i].label.variant = "Classification"
    /\ \E i \in 1..B : t_items[i].label.variant = "SeqClassification"

(* C11 as claimed: tensorizing a training batch that mixes Classification   *)
(* and SequenceClassification labels always fails fatally, no label array  *)
(* is returned for it.                                                     *)
C11_Original ==
    (mode = "training" /\ IsSome(tensorized) /\ Mixed) => Out.status = "panic"

(* C11: the state the failing input leads to, a Classification item and a   *)
(* SequenceClassification item of one token id and one label id: a label   *)
(* array is returned                                                       *)
C11_Witness ==
    /\ mode = "training" /\ IsSome(tensorized) /\ Mixed
    /\ B = 2 /\ t_tokenizer.num_prefix_tokens = 0
    /\ t_items[1].label = [variant |-> "Classification", labels |-> <<0>>]
    /\ t_items[2].label = [variant |-> "SeqClassification", labels |-> <<1>>]
    /\ \A i \in 1..B : Ids(i) = <<1>> /\ t_items[i].tokenization.info = Empty
    /\ Out.status = "ok" /\ Out.labels = Array1(<<0, 1>>)

(* C12 as claimed: tensorizing an empty batch fails fatally, for training   *)
(* and for inference batches; no output with zero rows is produced.        *)
C12_Original ==
    (mode \in {"training", "inference"} /\ IsSome(tensorized)) =>
        /\ B = 0 => Out.status = "panic"
        /\ Out.status = "ok" => Out.token_ids.shape[1] >= 1

(* C12: the state the failing input leads to, an empty inference batch      *)
(* tensorized to an array of zero rows                                     *)
C12_Witness ==
    /\ mode = "inference" /\ IsSome(tensorized) /\ B = 0
    /\ Out.status = "ok" /\ Out.token_ids.shape = <<0, 0>> /\ Out.lengths = <<>>

(* the training impl does reject the empty batch *)
EmptyTrainingPanics ==
    (mode = "training" /\ IsSome(tensorized) /\ B = 0) => Out = Panic("assert")

(* C13 as claimed: a loader configured with sort=true and shuffle=false is  *)
(* rejected at construction, so no loader runs its batcher with sort=true  *)
(* and shuffle=false.                                                      *)
C13_Original ==
    (mode = "loader" /\ dl.status = "ok") => (dl.sort => dl.shuffle)

(* C13: the state the failing input leads to, a loader constructed with     *)
(* sort=true and shuffle=false and iterated to its end, its items having   *)
(* been reordered by size                                                  *)
C13_Witness ==
    /\ mode = "loader" /\ Exhausted
    /\ dl.sort /\ ~dl.shuffle /\ dl.seed = None
    /\ Len(YieldedItems) >= 2
    /\ ~Increasing(Positions(YieldedItems))

(* every construction with shuffle=true and no seed is rejected *)
ShuffleWithoutSeedRejected ==
    \A a \in Args : (a.shuffle /\ ~IsSome(a.seed)) => New(a) = [status |-> "config_error"]

(* such a construction is among the calls *)
ShuffleWithoutSeedTried ==
    \E a \in Args : a.shuffle /\ ~IsSome(a.seed) /\ New(a).status = "config_error"

(* C14: DataLoader::new with shuffle=true and no seed returns a             *)
(* configuration error and no loader (no handler of it ever runs); every   *)
(* loader that exists with shuffle=true has a seed, and every iterator it  *)
(* builds gets the per-iteration seed seed + epoch in all its stages.      *)
C14_ShuffleSeed ==
    /\ ShuffleWithoutSeedRejected
    /\ mode = "loader" =>
        /\ dl.status = "config_error" =>
              iter = None /\ min_items = None /\ yielded = <<>> /\ ret = "new"
        /\ (dl.status = "ok" /\ dl.shuffle) =>
              /\ IsSome(dl.seed)
              /\ IsSome(iter) =>
                    /\ IsSome(Unwrap(iter).batch_seed)
                    /\ \E e \in Epochs :
                          /\ Unwrap(iter).batch_seed = Some(Unwrap(dl.seed) + e)
                          /\ Unwrap(iter).pipe_seed = Some(Unwrap(dl.seed) + e)
                          /\ Unwrap(iter).text_seed = Some(Unwrap(dl.seed) + e)

(* C14 witness: construction with shuffle=true and no seed is among the    *)
(* calls and gave a configuration error, and a shuffling loader with a     *)
(* seed has built an iterator for epoch 1 and yielded two batches          *)
C14_Witness ==
    /\ ShuffleWithoutSeedTried
    /\ mode = "loader" /\ dl.status = "ok" /\ dl.shuffle /\ IsSome(iter)
    /\ epoch = 1 /\ Unwrap(iter).batch_seed = Some(Unwrap(dl.seed) + 1)
    /\ Len(yielded) >= 2


(* the records of the shard of the iterator in use, failing ones included *)
ShardInUse ==
    Shard(TextIter(stream), dl.limit, dl.skip, Unwrap(iter).ff, dl.rank, dl.world_size)
(* the iteration has ended without a batch and a record of the shard failed *)
EndedEmptyOnFailure ==
    /\ mode = "loader" /\ dl.status = "ok" /\ IsSome(iter)
    /\ Unwrap(iter).batches = <<>> /\ yielded = <<>>
    /\ \E k \in 1..Len(ShardInUse) : ShardInUse[k].kind # "ok"

(* C15 as claimed: when the iteration ends without having yielded a batch   *)
(* because records failed, the terminal pull of the training loader        *)
(* returns the last error and not a normal end of iteration.               *)
C15_Original ==
    (EndedEmptyOnFailure /\ ret \notin {"new", "iter"}) => ret = "error"

(* C15: the state the failing input leads to, a source whose only record    *)
(* fails in the pipeline, pulled once: a normal end of iteration           *)
C15_Witness ==
    /\ EndedEmptyOnFailure
    /\ stream = <<"pipe_err">>
    /\ ret = "stop"


(* the positions of the records of the shard in use that do not fail *)
OkOfShard == {ShardInUse[k].pos : k \in {j \in 1..Len(ShardInUse) : ShardInUse[j].kind = "ok"}}
FailedOfShard == {k \in 1..Len(ShardInUse) : ShardInUse[k].kind # "ok"}

(* C16 as claimed: a failing record is skipped, every other record of the   *)
(* shard appears in exactly one batch in its original relative order, and  *)
(* the loader ends normally, whatever the configuration of the loader.     *)
C16_Original ==
    (mode = "loader" /\ Exhausted /\ FailedOfShard # {}) =>
        /\ Range(Positions(YieldedItems)) = OkOfShard
        /\ Len(YieldedItems) = Cardinality(OkOfShard)
        /\ Increasing(Positions(YieldedItems))

(* C16 amended: a record failing at the source or in the pipeline is        *)
(* skipped and the iteration goes on: at the end every other record of the *)
(* shard has appeared in exactly one batch (n records of which one fails   *)
(* give n-1 items), in the original relative order when shuffle=false and  *)
(* sort=false, and the pull that ends the iteration returns a normal end.  *)
C16_Isolation ==
    mode = "loader" =>
        /\ ret # "error"
        /\ Exhausted =>
            /\ Range(Positions(YieldedItems)) = OkOfShard
            /\ Len(YieldedItems) = Cardinality(OkOfShard)
            /\ Cardinality(FailedOfShard) = 1 => Len(YieldedItems) = Len(ShardInUse) - 1
            /\ (~dl.shuffle /\ ~dl.sort) => Increasing(Positions(YieldedItems))

(* C16 witness: a shard of three records whose second one fails has been    *)
(* iterated to its end and the first and the third were yielded            *)
C16_Witness ==
    /\ mode = "loader" /\ Exhausted
    /\ Len(ShardInUse) = 3 /\ FailedOfShard = {2}
    /\ Range(Positions(YieldedItems)) = {ShardInUse[1].pos, ShardInUse[3].pos}




-----------------------------------------------------------------------------
(* The inference loader: InferenceLoader::new and __next__                 *)

(* InferencePipeline::with_windows: the items of the windows of a record,   *)
(* or the error of the window step                                         *)
WithWindows(data, idx) ==
    IF data.kind = "pipe_err"
    THEN [ok |-> FALSE, pos |-> data.pos, items |-> <<>>]
    ELSE [ok |-> TRUE, pos |-> data.pos,
          items |-> [w \in 1..(1 + (data.pos % 2)) |->
                       [ok |-> TRUE, pos |-> data.pos, item_idx |-> idx, window_idx |-> w - 1,
                        token_ids |-> Tokenize(data.pos + w - 1, None)]]]

(* a variant of ScanEnds under which no record ends the scan *)
ScanNeverEnds(is_err) == FALSE
(* the closure of both scans: an Err is stored in iter_err and ends the     *)
(* stream (None), an Ok value is passed on                                 *)
ScanEnds(is_err) == is_err

(* a variant of NextEnd that reports a normal end whatever the slot holds *)
NextEndIgnoringErr(err) == "stop"
(* __next__ when iter.next() is None: Err if iter_err holds an error,       *)
(* Ok(None) otherwise                                                      *)
NextEnd(err) == IF IsSome(err) THEN "error" ELSE "stop"

(* InferenceLoader::new: what batched() is handed *)
NewInference(args) ==
    [status |-> "ok",
     sort |-> args.sort, shuffle |-> FALSE, seed |-> None,
     prefetch_factor |-> PrefetchFactor(args.prefetch_factor),
     batch_limit |-> args.batch_limit, batch_limit_type |-> args.batch_limit_type]

InferArgs ==
    {[sort |-> s, prefetch_factor |-> 0, batch_limit |-> x[1], batch_limit_type |-> x[2]] :
        s \in BOOLEAN, x \in {<<2, "BatchSize">>, <<4, "TokenCount">>}}

(* the streams of the inference loader: any record may fail *)
InferStreams == SeqsUpTo({"ok", "src_err", "pipe_err"}, MaxLen)

InitInfer ==
    /\ mode = "infer"
    /\ stream \in InferStreams
    /\ text_min_len = Len(stream)
    /\ \E a \in InferArgs : dl = NewInference(a)
    /\ epoch = 0 /\ fast_forward = 0
    /\ min_items = Some(text_min_len)
    /\ iter = None
    /\ yielded = <<>>
    /\ ret = "new"
    /\ p_threads \in 1..MaxThreads
    /\ p_buffer_size \in 1..MaxBuffer
    /\ p_seed = None
    /\ p_inputs = <<>>
    /\ p_next = 0 /\ p_inchan = <<>> /\ p_work = <<>> /\ p_done = {}
    /\ p_out = <<>>
    /\ b_window = <<>> /\ b_pending = <<>> /\ q = <<>>
    /\ TensorIdle
    /\ iter_err = None /\ i_read = 0 /\ i_src_ended = FALSE /\ i_pipe_ended = FALSE
    /\ i_flat = <<>>
    /\ FnIdle

InferFrame == UNCHANGED <<mode, stream, text_min_len, dl, epoch, fast_forward, min_items,
                          iter, p_threads, p_buffer_size, p_seed, p_next, p_inchan,
                          p_work, p_done, tensorVars, fnVars>>

(* one call of the closure of the first scan on the record d, `slot` being *)
(* what iter_err holds: an Err is stored in the slot and the poll returns  *)
(* None, an Ok record is returned and the slot is left alone.  The closure *)
(* keeps no state and Scan is not fused: called on the record after a      *)
(* failing one it returns that record.                                     *)
FirstScan(d, slot) ==
    IF ScanEnds(~SourceOk(d))
    THEN [next |-> None, slot |-> Some([pos |-> d.pos, kind |-> d.kind])]
    ELSE [next |-> Some(d), slot |-> slot]

(* the pipeline stage gets nothing more from its upstream: it has seen a   *)
(* None, or every record has been read                                     *)
SourceEnded == i_src_ended \/ i_read = Len(stream)

(* the stage pulls its next input from its upstream, the first scan, and    *)
(* takes the first None it sees as the end of the upstream (section 4.3:   *)
(* inputs are consumed in upstream order until the upstream is exhausted)  *)
InferRead ==
    /\ ~SourceEnded
    /\ Len(p_inputs) - Len(p_out) < InFlightCap(p_threads)
    /\ LET r == FirstScan(TextIter(stream)[i_read + 1], iter_err)
       IN  /\ iter_err' = r.slot
           /\ IF IsSome(r.next)
              THEN /\ p_inputs' = Append(p_inputs, Unwrap(r.next))
                   /\ i_src_ended' = i_src_ended
              ELSE /\ p_inputs' = p_inputs
                   /\ i_src_ended' = TRUE
    /\ i_read' = i_read + 1
    /\ UNCHANGED <<p_out, b_window, b_pending, q, yielded, ret, i_pipe_ended, i_flat>>
    /\ InferFrame

(* the batcher pulls an item that flatten still holds *)
InferPullFlat ==
    /\ i_flat # <<>>
    /\ b_pending = <<>>
    /\ Len(b_window) < WindowSize(dl)
    /\ b_window' = Append(b_window, Head(i_flat))
    /\ i_flat' = Tail(i_flat)
    /\ UNCHANGED <<p_inputs, p_out, b_pending, q, yielded, ret, iter_err, i_read,
                   i_src_ended, i_pipe_ended>>
    /\ InferFrame

(* the batcher pulls the next output of the stage through the second scan:  *)
(* an Err is stored and ends the stream, the items of an Ok go to flatten  *)
InferPull ==
    /\ i_flat = <<>>
    /\ ~i_pipe_ended
    /\ b_pending = <<>>
    /\ Len(b_window) < WindowSize(dl)
    /\ Len(p_out) < Len(p_inputs)
    /\ LET idx == Len(p_out)
           out == WithWindows(p_inputs[idx + 1], idx)
       IN  /\ p_out' = Append(p_out, [idx |-> idx, val |-> [ok |-> out.ok, pos |-> out.pos]])
           /\ IF ScanEnds(~out.ok)
              THEN /\ iter_err' = Some([pos |-> out.pos, kind |-> "pipe_err"])
                   /\ i_pipe_ended' = TRUE
                   /\ i_flat' = <<>>
              ELSE /\ i_flat' = out.items
                   /\ UNCHANGED <<iter_err, i_pipe_ended>>
    /\ UNCHANGED <<p_inputs, b_window, b_pending, q, yielded, ret, i_read, i_src_ended>>
    /\ InferFrame

(* nothing more will reach the batcher *)
InferUpstreamEnded ==
    /\ i_flat = <<>>
    /\ i_pipe_ended \/ (SourceEnded /\ Len(p_out) = Len(p_inputs))

(* the batcher turns a full prefetch buffer, or the rest at the end of the  *)
(* upstream, into batches: batched(sort, false, .., None)                  *)
InferFormBatches ==
    /\ b_pending = <<>>
    /\ b_window # <<>>
    /\ Len(b_window) = WindowSize(dl) \/ InferUpstreamEnded
    /\ b_pending' = WindowBatches(b_window, dl.sort, dl.shuffle, dl.batch_limit,
                                  dl.batch_limit_type, dl.seed)
    /\ b_window' = <<>>
    /\ UNCHANGED <<p_inputs, p_out, q, yielded, ret, inferVars, fnVars>>
    /\ InferFrame

(* the buffer's thread puts the next batch on the queue when there is room *)
InferBufferPush ==
    /\ b_pending # <<>>
    /\ Len(q) < p_buffer_size
    /\ q' = Append(q, Head(b_pending))
    /\ b_pending' = Tail(b_pending)
    /\ UNCHANGED <<p_inputs, p_out, b_window, yielded, ret, inferVars, fnVars>>
    /\ InferFrame

(* InferenceLoader::__next__ when iter.next() is Some *)
InferNextBatch ==
    /\ q # <<>>
    /\ yielded' = Append(yielded, Head(q))
    /\ q' = Tail(q)
    /\ ret' = "batch"
    /\ UNCHANGED <<p_inputs, p_out, b_window, b_pending, inferVars, fnVars>>
    /\ InferFrame

(* InferenceLoader::__next__ when iter.next() is None *)
InferNextEnd ==
    /\ q = <<>> /\ b_pending = <<>> /\ b_window = <<>> /\ InferUpstreamEnded
    /\ ret' = NextEnd(iter_err)
    /\ UNCHANGED <<p_inputs, p_out, b_window, b_pending, q, yielded, inferVars, fnVars>>
    /\ InferFrame

NextInfer ==
    \/ InferRead
    \/ InferPullFlat
    \/ InferPull
    \/ InferFormBatches
    \/ InferBufferPush
    \/ InferNextBatch
    \/ InferNextEnd

SpecInfer == InitInfer /\ [][NextInfer]_vars

(* the stream positions of the failing records *)
FailingPositions == {p \in StreamPositions : stream[p + 1] # "ok"}
(* every item the loader holds or has emitted *)
InferItems ==
    Concat(yielded) \o Concat(q) \o Concat(b_pending) \o b_window \o i_flat

(* the positions of the records that fail in the window step *)
WindowFailures == {p \in StreamPositions : stream[p + 1] = "pipe_err"}

(* no item of a failing record, and none of a record after one that failed *)
(* in the window step, reaches the batcher; an error that was stored is    *)
(* that of a failing record and the stream never ends normally after it    *)
ErrorSurfaced ==
    mode = "infer" =>
        /\ \A k \in 1..Len(InferItems) :
              /\ InferItems[k].pos \notin FailingPositions
              /\ \A f \in WindowFailures : InferItems[k].pos < f
        /\ IsSome(iter_err) => Unwrap(iter_err).pos \in FailingPositions
        /\ ret = "error" => IsSome(iter_err)
        /\ ret = "stop" =>
              /\ FailingPositions = {}
              /\ Range(Positions(Concat(yielded))) = StreamPositions

SourceAbortReached ==
    /\ mode = "infer"
    /\ stream = <<"ok", "src_err", "ok">>
    /\ i_read = 2 /\ i_src_ended
    /\ Range(Positions(Concat(yielded))) = {0}
    /\ ret = "error" /\ iter_err = Some([pos |-> 1, kind |-> "src_err"])


-----------------------------------------------------------------------------
(* Parsing one line of an inference file (data/mod.rs, InferenceData).     *)
(* A string is a sequence of characters, a character a string of length 1. *)

MaxLine == 5
U8Max == 255

Tab == "\t"
LineChars == {"a", " ", Tab, "0", "1"}
WhitespaceChars == {" ", Tab}
Lines == SeqsUpTo(LineChars, MaxLine)
Formats == {"Text", "TextPlusDetections", "TextPlusLanguage",
            "TextPlusDetectionsPlusLanguage"}

(* char::is_whitespace *)
is_whitespace(c) == c \in WhitespaceChars

(* str::split: cuts at every separator character and keeps empty pieces *)
RECURSIVE SplitFrom(_, _, _, _)
SplitFrom(s, seps, cur, out) ==
    IF s = <<>> THEN Append(out, cur)
    ELSE IF Head(s) \in seps THEN SplitFrom(Tail(s), seps, <<>>, Append(out, cur))
    ELSE SplitFrom(Tail(s), seps, Append(cur, Head(s)), out)

split(s, seps) == SplitFrom(s, seps, <<>>, <<>>)

RECURSIVE trim_start(_)
trim_start(s) ==
    IF s # <<>> /\ is_whitespace(Head(s)) THEN trim_start(Tail(s)) ELSE s

RECURSIVE trim_end(_)
trim_end(s) ==
    IF s # <<>> /\ is_whitespace(s[Len(s)]) THEN trim_end(SubSeq(s, 1, Len(s) - 1)) ELSE s

(* str::trim *)
trim(s) == trim_end(trim_start(s))

DigitValue(c) == IF c = "0" THEN 0 ELSE 1
IsDigit(c) == c \in {"0", "1"}

RECURSIVE Decimal(_, _)
Decimal(s, acc) ==
    IF s = <<>> THEN acc
    ELSE IF acc > U8Max THEN acc
    ELSE Decimal(Tail(s), 10 * acc + DigitValue(Head(s)))

(* str::parse::<u8>: one or more decimal digits with a value that fits *)
parse_u8(s) ==
    IF s = <<>> \/ \E i \in 1..Len(s) : ~IsDigit(s[i]) THEN None
    ELSE IF Decimal(s, 0) > U8Max THEN None
    ELSE Some(Decimal(s, 0))

(* InferenceData::parse_detections: expect() panics at the first piece that *)
(* is not a u8                                                              *)
parse_detections(str) ==
    LET pieces == split(str, WhitespaceChars)
        parsed == [i \in 1..Len(pieces) |-> parse_u8(trim(pieces[i]))]
    IN  IF \E i \in 1..Len(parsed) : ~IsSome(parsed[i])
        THEN Panic("expect")
        ELSE [status |-> "ok", value |-> [i \in 1..Len(parsed) |-> Unwrap(parsed[i]) # 0]]

InferenceData(original, detections, language) ==
    [status |-> "ok", original |-> original, detections |-> detections,
     language |-> language]

(* InferenceData::from_str: returns the record itself, there is no error    *)
(* value; assert_eq! on the number of fields and expect() both panic        *)
from_str(s, format) ==
    LET splits == split(s, {Tab})
        fields == CASE format = "TextPlusDetectionsPlusLanguage" -> 3
                    [] format = "Text" -> 0
                    [] OTHER -> 2
        det == parse_detections(splits[2])
    IN  IF format = "Text" THEN InferenceData(trim(s), None, None)
        ELSE IF Len(splits) # fields THEN Panic("assert_eq")
        ELSE IF format = "TextPlusLanguage"
             THEN InferenceData(trim(splits[1]), None, Some(trim(splits[2])))
        ELSE IF det.status = "panic" THEN det
        ELSE IF format = "TextPlusDetections"
             THEN InferenceData(trim(splits[1]), Some(det.value), None)
        ELSE InferenceData(trim(splits[1]), Some(det.value), Some(trim(splits[3])))

InitParse ==
    /\ mode = "parse"
    /\ LoaderIdle /\ PipeIdle /\ TensorIdle /\ InferIdle
    /\ \E s \in Lines, format \in Formats : f_args = [s |-> s, format |-> format]
    /\ f_result = None

(* the line is parsed *)
FromStr ==
    /\ mode = "parse"
    /\ f_result = None
    /\ f_result' = Some(from_str(f_args.s, f_args.format))
    /\ UNCHANGED <<mode, loaderVars, pipeVars, tensorVars, inferVars, f_args>>

NextParse == FromStr

SpecParse == InitParse /\ [][NextParse]_vars

(* the line has as many fields as its format wants *)
FieldsFit ==
    Len(split(f_args.s, {Tab})) =
        (IF f_args.format = "TextPlusDetectionsPlusLanguage" THEN 3 ELSE 2)

DetectionsField == split(f_args.s, {Tab})[2]

(* the detections field holds a piece that is not an integer *)
BadDetections ==
    /\ f_args.format \in {"TextPlusDetections", "TextPlusDetectionsPlusLanguage"}
    /\ FieldsFit
    /\ \E piece \in Range(split(DetectionsField, WhitespaceChars)) :
           ~IsSome(parse_u8(trim(piece)))

(* C18: a line whose detections field holds a token that is not an integer *)
(* is parsed into an error value for that line, and parsing does not panic *)
C18_Original ==
    (mode = "parse" /\ IsSome(f_result) /\ BadDetections)
        => Unwrap(f_result).status = "err"

(* C18 witness: "a<TAB>1 a" in the format text_detections was parsed, and  *)
(* the call panicked in expect()                                            *)
C18_Witness ==
    /\ mode = "parse"
    /\ f_args = [s |-> <<"a", Tab, "1", " ", "a">>, format |-> "TextPlusDetections"]
    /\ BadDetections
    /\ f_result = Some(Panic("expect"))

(* a line whose detections are all integers parses to the booleans v # 0 *)
GoodDetectionsParse ==
    (mode = "parse" /\ IsSome(f_result)
        /\ f_args.format \in {"TextPlusDetections", "TextPlusDetectionsPlusLanguage"}
        /\ FieldsFit /\ ~BadDetections)
        => /\ Unwrap(f_result).status = "ok"
           /\ IsSome(Unwrap(f_result).detections)
-----------------------------------------------------------------------------
(* Whitespace correction (whitespace.rs): remove, operations, repair.      *)
(* A string is the sequence of its characters, as CS::new(s, _).chars()    *)
(* yields them.                                                            *)

MaxContent == 3
MaxStr == 3

Letters == {"a", "b"}
Keep == "k"
Insert == "i"
Delete == "d"
WhitespaceOperation == {Keep, Insert, Delete}

Ok(v) == [status |-> "ok", value |-> v]
Err == [status |-> "err", value |-> <<>>]

RECURSIVE remove(_)
remove(s) ==
    IF s = <<>> THEN <<>>
    ELSE IF is_whitespace(Head(s)) THEN remove(Tail(s))
    ELSE <<Head(s)>> \o remove(Tail(s))

(* the loop of operations; from_ptr and to_ptr count from 0 as in the code *)
RECURSIVE operations_loop(_, _, _, _, _)
operations_loop(from_chars, to_chars, from_ptr, to_ptr, ops) ==
    IF ~(from_ptr < Len(from_chars)) THEN Ok(ops)
    ELSE LET from_char == from_chars[from_ptr + 1]
             to_char == IF to_ptr < Len(to_chars) THEN Some(to_chars[to_ptr + 1]) ELSE None
         IN  IF IsSome(to_char) /\ from_char = Unwrap(to_char)
             THEN operations_loop(from_chars, to_chars, from_ptr + 1, to_ptr + 1,
                                  Append(ops, Keep))
             ELSE IF IsSome(to_char) /\ is_whitespace(Unwrap(to_char))
             THEN operations_loop(from_chars, to_chars, from_ptr + 1, to_ptr + 2,
                                  Append(ops, Insert))
             ELSE IF is_whitespace(from_char)
             THEN operations_loop(from_chars, to_chars, from_ptr + 1, to_ptr,
                                  Append(ops, Delete))
             ELSE Err

(* a variant of operations_loop that steps over one character of `to` on   *)
(* Insert                                                                  *)
RECURSIVE operations_loop_step_one(_, _, _, _, _)
operations_loop_step_one(from_chars, to_chars, from_ptr, to_ptr, ops) ==
    IF ~(from_ptr < Len(from_chars)) THEN Ok(ops)
    ELSE LET from_char == from_chars[from_ptr + 1]
             to_char == IF to_ptr < Len(to_chars) THEN Some(to_chars[to_ptr + 1]) ELSE None
         IN  IF IsSome(to_char) /\ from_char = Unwrap(to_char)
             THEN operations_loop_step_one(from_chars, to_chars, from_ptr + 1, to_ptr + 1,
                                  Append(ops, Keep))
             ELSE IF IsSome(to_char) /\ is_whitespace(Unwrap(to_char))
             THEN operations_loop_step_one(from_chars, to_chars, from_ptr + 1, to_ptr + 1,
                                  Append(ops, Insert))
             ELSE IF is_whitespace(from_char)
             THEN operations_loop_step_one(from_chars, to_chars, from_ptr + 1, to_ptr,
                                  Append(ops, Delete))
             ELSE Err

operations_step_one(from, to) == operations_loop_step_one(from, to, 0, 0, <<>>)

operations(from, to) == operations_loop(from, to, 0, 0, <<>>)

(* the loop of repair over the characters zipped with their operations *)
RECURSIVE repair_loop(_, _, _, _)
repair_loop(chars, ops, idx, output) ==
    IF ~(idx < Len(chars)) THEN output
    ELSE LET char == chars[idx + 1]
             op == ops[idx + 1]
         IN  IF op = Insert /\ ~is_whitespace(char)
                /\ (idx = 0 \/ ~is_whitespace(chars[idx]))
             THEN repair_loop(chars, ops, idx + 1, output \o <<" ", char>>)
             ELSE IF op = Delete /\ is_whitespace(char)
             THEN repair_loop(chars, ops, idx + 1, output)
             ELSE repair_loop(chars, ops, idx + 1, Append(output, char))

(* a variant of repair in which Delete drops whatever character it is on *)
repair_delete_any(s, ops) ==
    LET F[i \in 0..Len(s)] ==
            IF i = 0 THEN <<>>
            ELSE IF ops[i] = Delete THEN F[i - 1]
            ELSE F[i - 1] \o repair_loop(<<s[i]>>, <<ops[i]>>, 0, <<>>)
    IN  IF Len(s) # Len(ops) THEN Err ELSE Ok(F[Len(s)])

repair(s, ops) ==
    IF Len(s) # Len(ops) THEN Err
    ELSE Ok(repair_loop(s, ops, 0, <<>>))


(* strings for the round trip: the same letters with a gap in front of each *)
(* letter and one at the end                                                *)
Contents == SeqsUpTo(Letters, MaxContent)
InnerGaps == {<<>>, <<" ">>, <<Tab>>}
OuterGaps == {<<>>, <<" ">>}
GapsOf(content) ==
    IF content = <<>> THEN [{1} -> OuterGaps]
    ELSE {g \in [1..(Len(content) + 1) -> InnerGaps] :
            g[1] \in OuterGaps /\ g[Len(content) + 1] \in OuterGaps}

RECURSIVE Spaced(_, _, _)
Spaced(content, gaps, i) ==
    IF i > Len(content) THEN gaps[i]
    ELSE gaps[i] \o <<content[i]>> \o Spaced(content, gaps, i + 1)

WsStrings == SeqsUpTo(Letters \cup WhitespaceChars, MaxStr)
OpLists == SeqsUpTo(WhitespaceOperation, MaxStr)

InitWhitespace ==
    /\ mode = "whitespace"
    /\ LoaderIdle /\ PipeIdle /\ TensorIdle /\ InferIdle
    /\ \/ \E content \in Contents :
            \E g1 \in GapsOf(content), g2 \in GapsOf(content) :
               f_args = [fn |-> "operations", s |-> Spaced(content, g1, 1),
                         to |-> Spaced(content, g2, 1), ops |-> <<>>]
       \/ \E s \in WsStrings, ops \in OpLists :
            f_args = [fn |-> "repair", s |-> s, to |-> <<>>, ops |-> ops]
    /\ f_result = <<>>

WsFrame == UNCHANGED <<mode, loaderVars, pipeVars, tensorVars, inferVars, f_args>>

(* operations(from, to) is called *)
Operations ==
    /\ mode = "whitespace" /\ f_args.fn = "operations"
    /\ f_result = <<>>
    /\ f_result' = <<operations(f_args.s, f_args.to)>>
    /\ WsFrame

(* repair(from, ..) is called on the operations that came back *)
RepairWith ==
    /\ mode = "whitespace" /\ f_args.fn = "operations"
    /\ Len(f_result) = 1 /\ f_result[1].status = "ok"
    /\ f_result' = Append(f_result, repair(f_args.s, f_result[1].value))
    /\ WsFrame

(* repair(s, ops) is called on a given list of operations *)
Repair ==
    /\ mode = "whitespace" /\ f_args.fn = "repair"
    /\ f_result = <<>>
    /\ f_result' = <<repair(f_args.s, f_args.ops)>>
    /\ WsFrame

NextWhitespace == Operations \/ RepairWith \/ Repair

SpecWhitespace == InitWhitespace /\ [][NextWhitespace]_vars

(* no leading, trailing or consecutive whitespace *)
Clean(s) ==
    /\ s # <<>> => ~is_whitespace(s[1]) /\ ~is_whitespace(s[Len(s)])
    /\ \A i \in 1..(Len(s) - 1) : ~(is_whitespace(s[i]) /\ is_whitespace(s[i + 1]))

OnlySpaces(s) == \A i \in 1..Len(s) : is_whitespace(s[i]) => s[i] = " "

RoundTripCase ==
    /\ mode = "whitespace" /\ f_args.fn = "operations"
    /\ Clean(f_args.s) /\ Clean(f_args.to)
    /\ remove(f_args.s) = remove(f_args.to)

(* what the round trip promises in the states a call has reached *)
RoundTripHolds ==
    /\ Len(f_result) >= 1 =>
          /\ f_result[1].status = "ok"
          /\ Len(f_result[1].value) = Len(f_args.s)
          /\ f_args.s = f_args.to => \A i \in 1..Len(f_args.s) : f_result[1].value[i] = Keep
    /\ Len(f_result) = 2 => f_result[2] = Ok(f_args.to)

(* C19 as stated: for all from and to with the same non-whitespace          *)
(* characters and no leading, trailing or consecutive whitespace,           *)
(* operations(from, to) succeeds with one operation per character of from,  *)
(* repair(from, operations(from, to)) = to, and operations(s, s) is all Keep *)
C19_Original == RoundTripCase => RoundTripHolds

(* C19, amended: the round trip holds when, in addition, the only           *)
(* whitespace character of from and to is the space                         *)
C19_RoundTrip ==
    (RoundTripCase /\ OnlySpaces(f_args.s) /\ OnlySpaces(f_args.to)) => RoundTripHolds

(* C19 witness: operations("a ba", "ab a") gave Keep, Delete, Keep, Insert  *)
(* and repair("a ba", ..) gave back "ab a"                                  *)
C19_Witness ==
    /\ RoundTripCase
    /\ f_args.s = <<"a", " ", "b", "a">> /\ f_args.to = <<"a", "b", " ", "a">>
    /\ Len(f_result) = 2
    /\ f_result[1] = Ok(<<Keep, Delete, Keep, Insert>>)
    /\ f_result[2] = Ok(f_args.to)

(* the string, the operations and the result of the call of repair that a  *)
(* state has made, if it has made one                                      *)
Repaired ==
    /\ mode = "whitespace"
    /\ Len(f_result) = (IF f_args.fn = "repair" THEN 1 ELSE 2)
RepairOps == IF f_args.fn = "repair" THEN f_args.ops ELSE f_result[1].value
RepairResult == f_result[Len(f_result)]

(* the operation on character i is one that repair does not act on *)
LeftAsIs(s, ops, i) ==
    \/ ops[i] = Keep
    \/ ops[i] = Delete /\ ~is_whitespace(s[i])
    \/ ops[i] = Insert /\ (is_whitespace(s[i]) \/ (i > 1 /\ is_whitespace(s[i - 1])))

(* C20: with one operation per character repair succeeds and its result   *)
(* has the non-whitespace characters of its input, in order; a Delete on a *)
(* non-whitespace character and an Insert on or directly after a           *)
(* whitespace character leave the character as is; with any other number   *)
(* of operations repair returns an error and no string                     *)
C20_ContentKept ==
    Repaired =>
        LET s == f_args.s
            ops == RepairOps
        IN  /\ Len(ops) = Len(s) =>
                  /\ RepairResult.status = "ok"
                  /\ remove(RepairResult.value) = remove(s)
                  /\ (\A i \in 1..Len(s) : LeftAsIs(s, ops, i)) => RepairResult.value = s
            /\ Len(ops) # Len(s) => RepairResult = Err

(* C20 witness: repair("a b", [Delete, Delete, Insert]) returned "ab": the *)
(* Delete on "a" and the Insert after the space did nothing                *)
C20_Witness ==
    /\ Repaired
    /\ f_args.fn = "repair"
    /\ f_args.s = <<"a", " ", "b">> /\ f_args.ops = <<Delete, Delete, Insert>>
    /\ RepairResult = Ok(<<"a", "b">>)

(* a call of repair with two operations for three characters has returned *)
(* the error                                                               *)
RepairMismatchReached ==
    /\ Repaired /\ f_args.fn = "repair"
    /\ Len(f_args.s) = 3 /\ Len(f_args.ops) = 2
    /\ RepairResult = Err
-----------------------------------------------------------------------------
(* The setters of the training loader and the iterator in use              *)

(* the step stores another epoch or fast_forward *)
SetterStep == epoch' # epoch \/ fast_forward' # fast_forward
(* the step is a call of __iter__ *)
IterStep == ret' = "iter" /\ ~SetterStep
(* the step is a pull on an iterator that has no batch left *)
PullAtEnd ==
    /\ IsSome(iter) /\ Unwrap(iter).batches = <<>>
    /\ ~IterStep /\ ~SetterStep

(* what a step does to the fields of the loader, by the kind of the step *)
SetterFrame ==
    /\ SetterStep =>
          /\ iter' = iter /\ min_items' = min_items
          /\ yielded' = yielded /\ ret' = ret /\ dl' = dl
          /\ epoch' = epoch \/ fast_forward' = fast_forward
    /\ IterStep =>
          /\ epoch' = epoch /\ fast_forward' = fast_forward
          /\ iter' = Some(BuildIter(TextIter(stream), dl, epoch, fast_forward))
          /\ Unwrap(iter').ff = fast_forward
          /\ Unwrap(iter').batch_seed = IterSeed(dl.seed, epoch)
    /\ (IsSome(iter) /\ ~IterStep) =>
          /\ Unwrap(iter').ff = Unwrap(iter).ff
          /\ Unwrap(iter').batch_seed = Unwrap(iter).batch_seed
          /\ Unwrap(iter').fed = Unwrap(iter).fed
          /\ min_items' = min_items
    /\ PullAtEnd =>
          /\ iter' = iter /\ yielded' = yielded /\ ret' = "stop"

(* C21: set_epoch and set_fast_forward change only the stored field; the   *)
(* iterator being pulled and the reported min_items stay as they are; the  *)
(* next __iter__ builds the iterator from the values then stored and keeps *)
(* fast_forward, so the value stays in force until it is set again; a pull *)
(* on an exhausted iterator returns the end of iteration and leaves the    *)
(* iterator as it is                                                       *)
C21_Setters == [][mode = "loader" => SetterFrame]_vars

(* C21 witness: epoch and fast_forward were set to 1 while the iterator    *)
(* built for epoch 0 and fast_forward 0 was being pulled; it is exhausted   *)
(* and still the one in use                                                 *)
C21_Witness ==
    /\ mode = "loader" /\ dl.status = "ok" /\ dl.seed = Some(1)
    /\ epoch = 1 /\ fast_forward = 1
    /\ IsSome(iter) /\ Unwrap(iter).ff = 0 /\ Unwrap(iter).batch_seed = Some(1)
    /\ Len(yielded) >= 1 /\ ret = "stop"
    /\ IsSome(min_items)

(* a fast_forward set earlier is the one a later __iter__ has used *)
FastForwardInForce ==
    /\ mode = "loader" /\ ret = "iter"
    /\ fast_forward = 1 /\ epoch = 1
    /\ Unwrap(iter).ff = 1 /\ Unwrap(iter).batch_seed = Some(2)
-----------------------------------------------------------------------------
(* min_items against the shard of the rank                                 *)

(* the iterator in use was built with fast_forward = 0 over a source with  *)
(* no failing record that yields at least min_len records                  *)
PlainIteration ==
    /\ mode = "loader" /\ dl.status = "ok" /\ IsSome(iter) /\ IsSome(min_items)
    /\ Unwrap(iter).ff = 0
    /\ NoFailure
    /\ text_min_len <= Len(stream)

(* C22: a loader that was constructed has rank < world_size, so world_size *)
(* is at least 1 where init_iter divides and steps by it; and with         *)
(* fast_forward = 0, no failing record and a source of at least min_len    *)
(* records, min_items is at most the number of records of the rank's shard *)
(* (and of the items an exhausted iteration has yielded)                   *)
C22_MinItemsBound ==
    /\ (mode = "loader" /\ dl.status = "ok") =>
          /\ dl.rank < dl.world_size
          /\ dl.world_size >= 1
    /\ PlainIteration =>
          /\ Unwrap(min_items) <= Len(Shard(TextIter(stream), dl.limit, dl.skip, 0,
                                            dl.rank, dl.world_size))
          /\ Unwrap(min_items) <= Len(Unwrap(iter).fed)
          /\ Exhausted => Unwrap(min_items) <= Len(YieldedItems)

(* C22 witness: rank 1 of 2 over three records with nothing skipped reports *)
(* min_items = 1 and has yielded the one record of its shard               *)
C22_Witness ==
    /\ PlainIteration /\ Exhausted
    /\ Len(stream) = 3 /\ dl.skip = 0 /\ dl.limit > Len(stream)
    /\ dl.world_size = 2 /\ dl.rank = 1
    /\ min_items = Some(1)
    /\ Positions(YieldedItems) = <<1>>

(* construction with a rank that is not below world_size panics *)
BadRankPanics ==
    \A a \in Args :
        (~(a.shuffle /\ ~IsSome(a.seed))
           /\ ~(RankWorld(a.distributed)[1] < RankWorld(a.distributed)[2]))
        => New(a) = [status |-> "panic"]
====
